---- MODULE Spec2Model ----
(***************************************************************************)
(* Model of the drug-repurposing notebook (src/drug-repurposing.ipynb).    *)
(*                                                                         *)
(* Tables (pandas DataFrames) are sequences of records.  A nullable cell   *)
(* is <<>> (NaN / None) or <<x>> (the value x).                            *)
(***************************************************************************)
EXTENDS Integers, Sequences, FiniteSets, TLC

VARIABLES
    \* create_training_data: arguments, intermediate and result
    activity_data,      \* table (molecule_chembl_id, standard_value)
    molecule_data,      \* table (molecule_chembl_id, canonical_smiles)
    nm_cutoff,          \* potency cutoff
    n_joined,           \* rows left after merge + dropna, before groupby
    training_data,      \* table (canonical_smiles, activity)
    built,              \* create_training_data has returned
    \* download_drug_repurposing_hub: the remote file and data/drug_repurposing_hub.csv
    remote,             \* smiles column of the remote file, one nullable cell per row
    downloaded,         \* drug_repurposing_df as pd.read_csv last returned it
    hub_file,           \* data/drug_repurposing_hub.csv: NoFile or the written table
    net_reads,          \* network reads made so far
    hub_calls,          \* calls of download_drug_repurposing_hub so far
    hub_result,         \* how the latest call ended
    \* visualize_top_predictions
    preds_file,         \* data/<search>_predictions.csv: table (smiles, activity)
    drawn,              \* the rows handed to Draw.MolsToGridImage: (row, mol, legend)
    viz_result,         \* "none", "image" (returned) or "error" (raised)
    viz_path,           \* the path visualize_top_predictions handed to pd.read_csv
    \* run_repurposing_pipeline
    pc,                 \* the stage the run is at, or "idle", "done", "failed"
    runs,               \* runs begun so far
    last_run,           \* how the run before this one ended: search, pc, started
    search,             \* the search string of the run
    started,            \* the stages the run has started, in order
    target_hits,        \* what target.search returned in this run
    target_chembl_id,   \* the resolved target
    written,            \* the files save_training_data has written in this run
    fs,                 \* the training, model and prediction paths that exist
    train_args,         \* the chemprop train invocation of this run
    predict_args,       \* the chemprop predict invocation of this run
    train_exit,         \* exit status of chemprop train
    predict_exit        \* exit status of chemprop predict

trainVars == <<activity_data, molecule_data, nm_cutoff, n_joined, training_data, built>>
hubVars == <<remote, downloaded, hub_file, net_reads, hub_calls, hub_result>>
vizVars == <<preds_file, drawn, viz_result, viz_path>>
pipeVars == <<pc, runs, last_run, search, started, target_hits, target_chembl_id, written, fs,
              train_args, predict_args, train_exit, predict_exit>>
vars == <<trainVars, hubVars, vizVars, pipeVars>>

-----------------------------------------------------------------------------
(* Bounds of the model *)
MaxActivities == 3
MaxHubRows == 3
MaxCalls == 3
MaxPreds == 10
MaxRuns == 2

-----------------------------------------------------------------------------
(* Generic helpers *)
Null == <<>>
Some(x) == <<x>>
IsNull(c) == c = Null
Val(c) == c[1]

Range(s) == {s[i] : i \in 1..Len(s)}

SeqsUpTo(S, n) == UNION {[1..k -> S] : k \in 0..n}

RECURSIVE SumSeq(_)
SumSeq(s) == IF s = <<>> THEN 0 ELSE Head(s) + SumSeq(Tail(s))

-----------------------------------------------------------------------------
(* Value domains *)
MolIds == {"CHEMBL1", "CHEMBL2"}
\* structure strings, in the (lexicographic) order groupby sorts its keys
SmilesOrder == <<"C", "CC">>
Smiles == Range(SmilesOrder)
Potencies == {10, 30}
Cutoffs == {20, 25}

ActivityRows == [molecule_chembl_id : MolIds,
                 standard_value : {Null} \cup {Some(v) : v \in Potencies}]
MoleculeRows == [molecule_chembl_id : MolIds,
                 canonical_smiles : {Null} \cup {Some(s) : s \in Smiles}]
\* the activity tables of at most n rows
ActivityTables(n) == SeqsUpTo(ActivityRows, n)
MoleculeTables == SeqsUpTo(MoleculeRows, 2)

\* a file of the data directory: absent, or holding a table
NoFile == [exists |-> FALSE, rows |-> <<>>]
File(rows) == [exists |-> TRUE, rows |-> rows]

\* structure strings as the remote file may hold them: two spellings of methanol,
\* methane, and two strings RDKit cannot parse
RawSmiles == {"CO", "OC", "C", "C(", "xyz"}
\* the remote files of at most n rows
RemoteContents(n) == SeqsUpTo({Null} \cup {Some(r) : r \in RawSmiles}, n)
\* what the remote file may hold after it is republished
RepublishedContents == {<<>>, <<Some("C")>>, <<Some("OC"), Some("C("), Some("CO")>>}

-----------------------------------------------------------------------------
(* create_training_data *)

\* pd.merge(how="left"): the rows one left row yields, in the right table's order
MergeRow(a, right) ==
    LET m == SelectSeq(right, LAMBDA r : r.molecule_chembl_id = a.molecule_chembl_id)
    IN  IF m = <<>>
        THEN << [molecule_chembl_id |-> a.molecule_chembl_id,
                 standard_value |-> a.standard_value,
                 canonical_smiles |-> Null] >>
        ELSE [i \in 1..Len(m) |->
                [molecule_chembl_id |-> a.molecule_chembl_id,
                 standard_value |-> a.standard_value,
                 canonical_smiles |-> m[i].canonical_smiles]]

\* pd.merge(left, right, on="molecule_chembl_id", how="left"): left order kept
RECURSIVE Merge(_, _)
Merge(left, right) ==
    IF left = <<>> THEN <<>>
    ELSE MergeRow(Head(left), right) \o Merge(Tail(left), right)

\* a faulty variant of DropNa: no row is dropped
DropNa_keep_all(rows) == rows

\* .dropna(how="any")
DropNa(rows) ==
    SelectSeq(rows, LAMBDA r : ~IsNull(r.standard_value) /\ ~IsNull(r.canonical_smiles))

\* .drop(columns="molecule_chembl_id")
DropId(rows) ==
    [i \in 1..Len(rows) |-> [canonical_smiles |-> rows[i].canonical_smiles,
                             standard_value |-> rows[i].standard_value]]

\* the group keys present in rows, in sorted order
SortedKeys(rows) ==
    SelectSeq(SmilesOrder, LAMBDA s : \E i \in 1..Len(rows) : rows[i].canonical_smiles = Some(s))

\* the mean of a group, kept exact as sum / n (n = 0: NaN)
Mean(values) == [sum |-> SumSeq(values), n |-> Len(values)]

\* a faulty variant of GroupByMean: one output row per input row (no grouping)
GroupByMean_no_grouping(rows) ==
    LET kept == SelectSeq(rows, LAMBDA r : ~IsNull(r.canonical_smiles))
    IN  [i \in 1..Len(kept) |->
            [canonical_smiles |-> Val(kept[i].canonical_smiles),
             standard_value |->
                Mean(IF IsNull(kept[i].standard_value) THEN <<>>
                     ELSE <<Val(kept[i].standard_value)>>)]]

\* .groupby("canonical_smiles", as_index=False).agg("mean"): one row per key, keys
\* sorted, null keys left out, the mean taken over the group's non-null values
GroupByMean(rows) ==
    LET keys == SortedKeys(rows)
        grp(s) == SelectSeq(rows, LAMBDA r : /\ r.canonical_smiles = Some(s)
                                              /\ ~IsNull(r.standard_value))
    IN  [k \in 1..Len(keys) |->
            [canonical_smiles |-> keys[k],
             standard_value |->
                Mean([i \in 1..Len(grp(keys[k])) |-> Val(grp(keys[k])[i].standard_value)])]]

\* a faulty variant of Below: a mean equal to the cutoff counts as active
Below_or_equal(mean, cutoff) == mean.n > 0 /\ mean.sum <= cutoff * mean.n

\* standard_value < nm_cutoff, on the exact mean sum / n (NaN < cutoff is False)
Below(mean, cutoff) == mean.n > 0 /\ mean.sum < cutoff * mean.n

\* training_data["activity"] = (training_data["standard_value"] < nm_cutoff).astype(int)
\* and the final .drop(columns="standard_value")
Label(grouped, cutoff) ==
    [i \in 1..Len(grouped) |->
        [canonical_smiles |-> grouped[i].canonical_smiles,
         activity |-> IF Below(grouped[i].standard_value, cutoff) THEN 1 ELSE 0]]

\* the rows left after the merge and the dropna
Joined(activity, molecule) == DropNa(Merge(activity, molecule))

create_training_data(activity, molecule, cutoff) ==
    Label(GroupByMean(DropId(Joined(activity, molecule))), cutoff)

-----------------------------------------------------------------------------
(* canon_smiles and download_drug_repurposing_hub *)

\* Chem.MolFromSmiles: the molecule a string denotes (written by its canonical
\* string), or Null (None) when the string does not parse
MolFromSmiles(smiles) ==
    CASE smiles = "CO" -> Some("CO")
      [] smiles = "OC" -> Some("CO")
      [] smiles = "C"  -> Some("C")
      [] OTHER         -> Null

\* Chem.MolToSmiles(mol, canonical=True)
MolToSmiles(mol) == mol

canon_smiles(smiles) ==
    LET mol == MolFromSmiles(smiles)
    IN  IF IsNull(mol) THEN Null ELSE Some(MolToSmiles(Val(mol)))

\* pd.read_csv(url, sep="\t", skiprows=9): row keeps the other columns' identity
ReadCsv(content) == [i \in 1..Len(content) |-> [row |-> i, smiles |-> content[i]]]

\* a missing smiles cell is a float NaN, on which Chem.MolFromSmiles raises
ApplyRaises(df) == \E i \in 1..Len(df) : IsNull(df[i].smiles)

\* drug_repurposing_df["smiles"].apply(canon_smiles)
ApplyCanon(df) ==
    [i \in 1..Len(df) |-> [row |-> df[i].row, smiles |-> canon_smiles(Val(df[i].smiles))]]

\* .dropna(subset=["smiles"])
DropNaSmiles(df) == SelectSeq(df, LAMBDA r : ~IsNull(r.smiles))

\* a faulty variant of DropDuplicates: keep="last"
DropDuplicates_keep_last(df) ==
    LET keep(i) == \A j \in (i+1)..Len(df) : df[j].smiles # df[i].smiles
        idx == SelectSeq([i \in 1..Len(df) |-> i], keep)
    IN  [k \in 1..Len(idx) |-> df[idx[k]]]

\* .drop_duplicates(subset=["smiles"], keep="first")
DropDuplicates(df) ==
    LET keep(i) == \A j \in 1..(i-1) : df[j].smiles # df[i].smiles
        idx == SelectSeq([i \in 1..Len(df) |-> i], keep)
    IN  [k \in 1..Len(idx) |-> df[idx[k]]]

\* the table download_drug_repurposing_hub writes for a downloaded table
ProcessHub(df) == DropDuplicates(DropNaSmiles(ApplyCanon(df)))

\* a faulty variant of HubFileExists: the existence check is lost
HubFileExists_never(file) == FALSE

\* Path("data/drug_repurposing_hub.csv").exists()
HubFileExists(file) == file.exists

\* one call of download_drug_repurposing_hub; net_ok: the network read succeeds
download_drug_repurposing_hub(net_ok) ==
    /\ hub_calls' = hub_calls + 1
    /\ UNCHANGED remote
    /\ IF HubFileExists(hub_file)
       THEN /\ hub_result' = "cached"
            /\ UNCHANGED <<downloaded, hub_file, net_reads>>
       ELSE /\ net_reads' = net_reads + 1
            /\ IF ~net_ok
               THEN /\ hub_result' = "error"
                    /\ UNCHANGED <<downloaded, hub_file>>
               ELSE /\ downloaded' = ReadCsv(remote)
                    /\ IF ApplyRaises(ReadCsv(remote))
                       THEN /\ hub_result' = "error"
                            /\ UNCHANGED hub_file
                       ELSE /\ hub_result' = "downloaded"
                            /\ hub_file' = File(ProcessHub(ReadCsv(remote)))

-----------------------------------------------------------------------------
(* visualize_top_predictions *)

\* .head(9)
TopN == 9

\* prediction scores, in hundredths (the legend f"{a:.2f}" shows them exactly)
Scores == {20, 90}

\* a predictions file of the model: the scores sc, every structure string valid
\* except row bad's (bad = 0: all valid)
PredictionTable(sc, bad) ==
    [i \in 1..Len(sc) |->
        [row |-> i,
         smiles |-> IF i = bad THEN "C(" ELSE IF i % 2 = 0 THEN "CO" ELSE "C",
         activity |-> sc[i]]]

\* a faulty variant of ComesBefore: ascending=True
ComesBefore_ascending(a, b) == a.activity <= b.activity

\* the order of sort_values("activity", ascending=False): a stays before b
ComesBefore(a, b) == a.activity >= b.activity

\* one insertion of the sort (numpy sorts columns this short by insertion; rows of
\* equal score keep their file order)
RECURSIVE InsertRow(_, _)
InsertRow(sorted, r) ==
    IF sorted = <<>> THEN <<r>>
    ELSE IF ComesBefore(Head(sorted), r)
         THEN <<Head(sorted)>> \o InsertRow(Tail(sorted), r)
         ELSE <<r>> \o sorted

\* .sort_values("activity", ascending=False)
RECURSIVE SortValues(_)
SortValues(df) ==
    IF df = <<>> THEN <<>>
    ELSE InsertRow(SortValues(SubSeq(df, 1, Len(df) - 1)), df[Len(df)])

\* .head(n)
HeadRows(df, n) == SubSeq(df, 1, IF Len(df) < n THEN Len(df) ELSE n)

\* the arguments of Draw.MolsToGridImage: mols and legends, row by row
GridArgs(top) ==
    [i \in 1..Len(top) |->
        [row |-> top[i].row, mol |-> MolFromSmiles(top[i].smiles), legend |-> top[i].activity]]

\* a faulty variant of GridImage: a grid of fewer than 9 cells is refused
GridImage_full_grid_only(cells) ==
    IF Len(cells) < TopN THEN {"error"} ELSE {"image"}

\* Draw.MolsToGridImage(mols, legends, molsPerRow=3): a non-empty list of molecules
\* is drawn whatever its length; what RDKit does with no molecule at all or with a
\* None among them is not decided by this repository
GridImage(cells) ==
    IF cells # <<>> /\ \A i \in 1..Len(cells) : ~IsNull(cells[i].mol)
    THEN {"image"}
    ELSE {"image", "error"}

\* visualize_top_predictions(search), on the predictions file it reads
visualize_top_predictions(file) ==
    IF ~file.exists
    THEN \* pd.read_csv raises FileNotFoundError
         /\ viz_result' = "error"
         /\ drawn' = <<>>
    ELSE /\ drawn' = GridArgs(HeadRows(SortValues(file.rows), TopN))
         /\ viz_result' \in GridImage(drawn')

-----------------------------------------------------------------------------
(* The ChEMBL fetchers, save_training_data and the chemprop invocations *)

\* what a function call yields: a value, or an exception
Return(v) == [raised |-> FALSE, value |-> v]
Raise == [raised |-> TRUE, value |-> Null]

\* strings are sequences of characters and of unbroken pieces
Searches == {<<"P", " ", "f">>, <<"S">>, <<"/", "x">>}

\* str.replace(" ", "_")
ReplaceSpaces(str) == [i \in 1..Len(str) |-> IF str[i] = " " THEN "_" ELSE str[i]]

\* what target.search may return
SearchResults ==
    {<<>>,
     <<[pref_name |-> "T1", target_chembl_id |-> "CHEMBL364"]>>,
     <<[pref_name |-> "T2", target_chembl_id |-> "CHEMBL4523"],
       [pref_name |-> "T1", target_chembl_id |-> "CHEMBL364"]>>}

\* a faulty variant of get_target_chembl_id: an empty result is not an error
get_target_chembl_id_no_match_ok(target_query) ==
    Return(IF target_query = <<>> THEN "none" ELSE target_query[1].target_chembl_id)

\* get_target_chembl_id: target_query[0] raises on an empty result
get_target_chembl_id(target_query) ==
    IF target_query = <<>> THEN Raise ELSE Return(target_query[1].target_chembl_id)

\* activities[:100]
ActivityCap == 100

\* the activity records the service may hold for a target (standard_value as text)
ServiceActivities ==
    {<<>>,
     <<[molecule_chembl_id |-> "CHEMBL1", standard_value |-> Some("10")]>>,
     <<[molecule_chembl_id |-> "CHEMBL1", standard_value |-> Some("10")],
       [molecule_chembl_id |-> "CHEMBL1", standard_value |-> Some("30")]>>,
     <<[molecule_chembl_id |-> "CHEMBL1", standard_value |-> Some("30")],
       [molecule_chembl_id |-> "CHEMBL2", standard_value |-> Null]>>,
     <<[molecule_chembl_id |-> "CHEMBL2", standard_value |-> Some("ND")]>>}

\* pd.to_numeric on one cell: None becomes NaN, text that is no number raises
NumericText(cell) == cell \in {Null, Some("10"), Some("30")}
ToNumeric(cell) ==
    CASE cell = Some("10") -> Some(10)
      [] cell = Some("30") -> Some(30)
      [] OTHER             -> Null

\* get_target_activity, on the records the service holds: an empty list has no
\* column to select and a non-numeric standard_value does not convert
get_target_activity(records) ==
    LET first == SubSeq(records, 1, IF Len(records) < ActivityCap THEN Len(records)
                                                                  ELSE ActivityCap)
    IN  IF first = <<>> \/ \E i \in 1..Len(first) : ~NumericText(first[i].standard_value)
        THEN Raise
        ELSE Return([i \in 1..Len(first) |->
                        [molecule_chembl_id |-> first[i].molecule_chembl_id,
                         standard_value |-> ToNumeric(first[i].standard_value)]])

\* the compounds the service may know: one record each, the structure possibly None
ServiceMolecules ==
    {<<>>,
     <<[molecule_chembl_id |-> "CHEMBL1", canonical_smiles |-> Some("C")]>>,
     <<[molecule_chembl_id |-> "CHEMBL1", canonical_smiles |-> Some("CC")],
       [molecule_chembl_id |-> "CHEMBL2", canonical_smiles |-> Null]>>,
     <<[molecule_chembl_id |-> "CHEMBL2", canonical_smiles |-> Null]>>}

\* molecule.filter(molecule_chembl_id__in=ids)
FilterMolecules(known, ids) == SelectSeq(known, LAMBDA m : m.molecule_chembl_id \in ids)

\* get_molecule_data, on the service's answer: pd.json_normalize yields the
\* canonical_smiles column only if some record has a structure
get_molecule_data(compounds) ==
    IF \A i \in 1..Len(compounds) : IsNull(compounds[i].canonical_smiles)
    THEN Raise
    ELSE Return(compounds)

\* a path string as the operating system resolves it: a run of "/" counts as one
RECURSIVE FileOf(_)
FileOf(path) ==
    IF Len(path) < 2 THEN path
    ELSE IF path[1] = "/" /\ path[2] = "/" THEN FileOf(Tail(path))
    ELSE <<path[1]>> \o FileOf(Tail(path))

\* pathlib's dir / segment: a segment that begins with "/" is absolute and
\* replaces dir, any other segment is appended to dir
PathJoin(dir, segment) ==
    IF segment # <<>> /\ segment[1] = "/" THEN FileOf(segment)
    ELSE FileOf(dir \o <<"/">> \o segment)

\* output_dir / f"{target_name}_training_data.csv"
TrainingDataFile(output_dir, target_name) ==
    PathJoin(output_dir, target_name \o <<"_training_data.csv">>)

\* chemprop_train_args
TrainArgs(target_name, data_dir, output_dir) ==
    [data_path |-> data_dir \o <<"/">> \o ReplaceSpaces(target_name)
                       \o <<"_training_data.csv">>,
     save_dir |-> output_dir \o <<"/">> \o ReplaceSpaces(target_name)]

\* "data/drug_repurposing_hub.csv", the --test-path of chemprop predict
HubPath == <<"data", "/", "drug_repurposing_hub.csv">>

\* file_path = Path("data/drug_repurposing_hub.csv"), which
\* download_drug_repurposing_hub tests and writes
HubFilePath == FileOf(<<"data", "/", "drug_repurposing_hub.csv">>)

\* f"data/{search.replace(" ", "_")}_predictions.csv", which
\* visualize_top_predictions reads
PredictionsPath(search_string) ==
    <<"data", "/">> \o ReplaceSpaces(search_string) \o <<"_predictions.csv">>

\* chemprop_predict_args
PredictArgs(target_name, preds_dir, model_dir) ==
    [test_path |-> HubPath,
     model_paths |-> model_dir \o <<"/">> \o ReplaceSpaces(target_name),
     preds_path |-> preds_dir \o <<"/">> \o ReplaceSpaces(target_name)
                        \o <<"_predictions.csv">>]

\* a faulty variant of SubprocessRaises: check=True is lost
SubprocessRaises_unchecked(code) == FALSE

\* subprocess.run(args, check=True) raises CalledProcessError on a non-zero exit
SubprocessRaises(code) == code # 0

\* the stages of run_repurposing_pipeline, in the order of its statements
StageOrder == <<"load", "resolve", "activity", "molecule", "build", "save",
                "train", "predict">>

StageIndex(stage) == CHOOSE i \in 1..Len(StageOrder) : StageOrder[i] = stage

\* a faulty variant of NextStage: predict is called before train
NextStage_predict_first(stage) ==
    CASE stage = "save"    -> "predict"
      [] stage = "predict" -> "train"
      [] stage = "train"   -> "done"
      [] OTHER             -> StageOrder[StageIndex(stage) + 1]

\* the statement that follows a stage's statement
NextStage(stage) ==
    IF StageIndex(stage) = Len(StageOrder) THEN "done"
    ELSE StageOrder[StageIndex(stage) + 1]

\* how a run ended: its search string, where it stopped, the stages it started
NoRun == [search |-> <<>>, pc |-> "idle", started |-> <<>>]

\* a faulty variant of FirstStage: a run after a failed one resumes at the stage
\* that failed
FirstStage_resume(previous) ==
    IF previous.pc = "failed" /\ Len(previous.started) >= 2
    THEN previous.started[Len(previous.started)]
    ELSE StageOrder[1]

\* where a call of run_repurposing_pipeline begins, whatever the run before it left:
\* at its first statement
FirstStage(previous) == StageOrder[1]

-----------------------------------------------------------------------------
(* Specification SpecTrain: create_training_data on every pair of tables *)

TrainInputs ==
    /\ activity_data \in ActivityTables(MaxActivities)
    /\ molecule_data \in MoleculeTables
    /\ nm_cutoff \in Cutoffs
    /\ n_joined = 0
    /\ training_data = <<>>
    /\ built = FALSE

IdleTrain ==
    /\ activity_data = <<>>
    /\ molecule_data = <<>>
    /\ nm_cutoff = 25
    /\ n_joined = 0
    /\ training_data = <<>>
    /\ built = FALSE

IdleHub ==
    /\ remote = <<>>
    /\ downloaded = <<>>
    /\ hub_file = NoFile
    /\ net_reads = 0
    /\ hub_calls = 0
    /\ hub_result = "none"

IdleViz ==
    /\ preds_file = NoFile
    /\ drawn = <<>>
    /\ viz_result = "none"
    /\ viz_path = Null

IdlePipe ==
    /\ pc = "idle"
    /\ runs = 0
    /\ last_run = NoRun
    /\ search = <<>>
    /\ started = <<>>
    /\ target_hits = Null
    /\ target_chembl_id = Null
    /\ written = {}
    /\ fs = {}
    /\ train_args = Null
    /\ predict_args = Null
    /\ train_exit = Null
    /\ predict_exit = Null

CreateTrainingData ==
    /\ ~built
    /\ n_joined' = Len(Joined(activity_data, molecule_data))
    /\ training_data' = create_training_data(activity_data, molecule_data, nm_cutoff)
    /\ built' = TRUE
    /\ UNCHANGED <<activity_data, molecule_data, nm_cutoff>>
    /\ UNCHANGED <<hubVars, vizVars, pipeVars>>

InitTrain == TrainInputs /\ IdleHub /\ IdleViz /\ IdlePipe

NextTrain == CreateTrainingData

SpecTrain == InitTrain /\ [][NextTrain]_vars

-----------------------------------------------------------------------------
(* Specification SpecHub: calls of download_drug_repurposing_hub while the remote
   file is republished *)

HubStart ==
    /\ remote \in RemoteContents(MaxHubRows)
    /\ downloaded = <<>>
    /\ hub_file = NoFile
    /\ net_reads = 0
    /\ hub_calls = 0
    /\ hub_result = "none"

DownloadCall ==
    /\ hub_calls < MaxCalls
    /\ \E net_ok \in BOOLEAN : download_drug_repurposing_hub(net_ok)
    /\ UNCHANGED <<trainVars, vizVars, pipeVars>>

Republish ==
    /\ \E c \in RepublishedContents : c # remote /\ remote' = c
    /\ UNCHANGED <<downloaded, hub_file, net_reads, hub_calls, hub_result>>
    /\ UNCHANGED <<trainVars, vizVars, pipeVars>>

InitHub == HubStart /\ IdleTrain /\ IdleViz /\ IdlePipe

NextHub == DownloadCall \/ Republish

SpecHub == InitHub /\ [][NextHub]_vars

-----------------------------------------------------------------------------
(* Specification SpecViz: visualize_top_predictions on every predictions file *)

VizInputs ==
    /\ \/ preds_file = NoFile
       \/ \E sc \in SeqsUpTo(Scores, MaxPreds) : \E bad \in 0..Len(sc) :
             preds_file = File(PredictionTable(sc, bad))
    /\ drawn = <<>>
    /\ viz_result = "none"
    /\ viz_path = Null

Visualize ==
    /\ viz_result = "none"
    /\ visualize_top_predictions(preds_file)
    /\ UNCHANGED <<preds_file, viz_path>>
    /\ UNCHANGED <<trainVars, hubVars, pipeVars>>

InitViz == VizInputs /\ IdleTrain /\ IdleHub /\ IdlePipe

NextViz == Visualize

SpecViz == InitViz /\ [][NextViz]_vars

-----------------------------------------------------------------------------
(* Specification SpecPipe: runs of run_repurposing_pipeline, one after another *)

\* what the remote file holds while the pipeline runs
PipelineRemotes == {<<Some("OC"), Some("C("), Some("CO")>>, <<Some("C"), Null>>}

PipeStart ==
    /\ remote \in PipelineRemotes
    /\ downloaded = <<>>
    /\ hub_file = NoFile
    /\ net_reads = 0
    /\ hub_calls = 0
    /\ hub_result = "none"

\* a stage's statement raised, or returned
Goto(stage, raised) == pc' = IF raised THEN "failed" ELSE NextStage(stage)

Begin(stage) == pc = stage /\ started' = Append(started, stage)

\* run_repurposing_pipeline(search, nm_cutoff) is called
StartRun ==
    /\ pc \in {"idle", "done", "failed"}
    /\ runs < MaxRuns
    /\ runs' = runs + 1
    /\ search' \in Searches
    /\ nm_cutoff' \in Cutoffs
    /\ last_run' = [search |-> search, pc |-> pc, started |-> started]
    /\ pc' = FirstStage(last_run')
    /\ started' = <<>>
    /\ target_hits' = Null
    /\ target_chembl_id' = Null
    /\ written' = {}
    /\ train_args' = Null
    /\ predict_args' = Null
    /\ train_exit' = Null
    /\ predict_exit' = Null
    /\ activity_data' = <<>>
    /\ molecule_data' = <<>>
    /\ training_data' = <<>>
    /\ n_joined' = 0
    /\ built' = FALSE
    /\ preds_file' = NoFile
    /\ drawn' = <<>>
    /\ viz_result' = "none"
    /\ viz_path' = Null
    /\ UNCHANGED <<fs, hubVars>>

\* download_drug_repurposing_hub()
LoadStage ==
    /\ Begin("load")
    /\ \E net_ok \in BOOLEAN : download_drug_repurposing_hub(net_ok)
    /\ Goto("load", hub_result' = "error")
    /\ UNCHANGED <<runs, last_run, search, target_hits, target_chembl_id, written, fs,
                   train_args, predict_args, train_exit, predict_exit>>
    /\ UNCHANGED <<trainVars, vizVars>>

\* target_chembl_id = get_target_chembl_id(search)
ResolveStage ==
    /\ Begin("resolve")
    /\ \E hits \in SearchResults :
          LET r == get_target_chembl_id(hits)
          IN  /\ target_hits' = Some(hits)
              /\ target_chembl_id' = IF r.raised THEN Null ELSE Some(r.value)
              /\ Goto("resolve", r.raised)
    /\ UNCHANGED <<runs, last_run, search, written, fs, train_args, predict_args, train_exit,
                   predict_exit>>
    /\ UNCHANGED <<trainVars, hubVars, vizVars>>

\* activity_data = get_target_activity(target_chembl_id)
ActivityStage ==
    /\ Begin("activity")
    /\ \E records \in ServiceActivities :
          LET r == get_target_activity(records)
          IN  /\ activity_data' = IF r.raised THEN <<>> ELSE r.value
              /\ Goto("activity", r.raised)
    /\ UNCHANGED <<molecule_data, nm_cutoff, n_joined, training_data, built>>
    /\ UNCHANGED <<runs, last_run, search, target_hits, target_chembl_id, written, fs,
                   train_args, predict_args, train_exit, predict_exit>>
    /\ UNCHANGED <<hubVars, vizVars>>

\* molecule_data = get_molecule_data(activity_data["molecule_chembl_id"].tolist())
MoleculeStage ==
    /\ Begin("molecule")
    /\ \E known \in ServiceMolecules :
          LET ids == {activity_data[i].molecule_chembl_id : i \in 1..Len(activity_data)}
              r == get_molecule_data(FilterMolecules(known, ids))
          IN  /\ molecule_data' = IF r.raised THEN <<>> ELSE r.value
              /\ Goto("molecule", r.raised)
    /\ UNCHANGED <<activity_data, nm_cutoff, n_joined, training_data, built>>
    /\ UNCHANGED <<runs, last_run, search, target_hits, target_chembl_id, written, fs,
                   train_args, predict_args, train_exit, predict_exit>>
    /\ UNCHANGED <<hubVars, vizVars>>

\* training_data = create_training_data(activity_data, molecule_data, nm_cutoff)
BuildStage ==
    /\ Begin("build")
    /\ n_joined' = Len(Joined(activity_data, molecule_data))
    /\ training_data' = create_training_data(activity_data, molecule_data, nm_cutoff)
    /\ built' = TRUE
    /\ Goto("build", FALSE)
    /\ UNCHANGED <<activity_data, molecule_data, nm_cutoff>>
    /\ UNCHANGED <<runs, last_run, search, target_hits, target_chembl_id, written, fs,
                   train_args, predict_args, train_exit, predict_exit>>
    /\ UNCHANGED <<hubVars, vizVars>>

\* save_training_data(training_data, search.replace(" ", "_"), Path("data"))
SaveStage ==
    /\ Begin("save")
    /\ LET file == TrainingDataFile(<<"data">>, ReplaceSpaces(search))
       IN  /\ written' = written \cup {file}
           /\ fs' = fs \cup {file}
    /\ Goto("save", FALSE)
    /\ UNCHANGED <<runs, last_run, search, target_hits, target_chembl_id,
                   train_args, predict_args, train_exit, predict_exit>>
    /\ UNCHANGED <<trainVars, hubVars, vizVars>>

\* train_chemprop_model(target_name=search, data_dir="data", output_dir="models/"):
\* subprocess.run starts chemprop train
TrainInvoke ==
    /\ Begin("train")
    /\ train_args' = Some(TrainArgs(search, <<"data">>, <<"models", "/">>))
    /\ pc' = "train_wait"
    /\ UNCHANGED <<runs, last_run, search, target_hits, target_chembl_id, written, fs,
                   predict_args, train_exit, predict_exit>>
    /\ UNCHANGED <<trainVars, hubVars, vizVars>>

\* chemprop train exits; it can succeed only on a data file that exists
TrainExit ==
    /\ pc = "train_wait"
    /\ \E code \in {0, 1} :
          /\ code = 0 => FileOf(Val(train_args).data_path) \in fs
          /\ train_exit' = Some(code)
          /\ fs' = IF code = 0 THEN fs \cup {FileOf(Val(train_args).save_dir)}
                                    ELSE fs
          /\ Goto("train", SubprocessRaises(code))
    /\ UNCHANGED <<runs, last_run, search, started, target_hits, target_chembl_id, written,
                   train_args, predict_args, predict_exit>>
    /\ UNCHANGED <<trainVars, hubVars, vizVars>>

\* predict_with_chemprop(target_name=search, preds_dir="data", model_dir="models/"):
\* subprocess.run starts chemprop predict
PredictInvoke ==
    /\ Begin("predict")
    /\ predict_args' = Some(PredictArgs(search, <<"data">>, <<"models", "/">>))
    /\ pc' = "predict_wait"
    /\ UNCHANGED <<runs, last_run, search, target_hits, target_chembl_id, written, fs,
                   train_args, train_exit, predict_exit>>
    /\ UNCHANGED <<trainVars, hubVars, vizVars>>

\* chemprop predict exits; it can succeed only with the model and the library there
PredictExit ==
    /\ pc = "predict_wait"
    /\ \E code \in {0, 1} :
          /\ code = 0 => (/\ FileOf(Val(predict_args).model_paths) \in fs
                       /\ hub_file.exists)
          /\ predict_exit' = Some(code)
          /\ fs' = IF code = 0 THEN fs \cup {FileOf(Val(predict_args).preds_path)}
                                    ELSE fs
          /\ Goto("predict", SubprocessRaises(code))
    /\ UNCHANGED <<runs, last_run, search, started, target_hits, target_chembl_id, written,
                   train_args, predict_args, train_exit>>
    /\ UNCHANGED <<trainVars, hubVars, vizVars>>

\* the predictions chemprop predict writes for the library: one score a row
ChempropPredictions(library, sc) ==
    [i \in 1..Len(library) |->
        [row |-> i, smiles |-> Val(library[i].smiles), activity |-> sc[i]]]

\* visualize_top_predictions(search), called after the run has returned
VisualizeRun ==
    /\ pc = "done"
    /\ viz_result = "none"
    /\ viz_path' = Some(PredictionsPath(search))
    /\ IF FileOf(PredictionsPath(search)) \in fs
       THEN \E sc \in [1..Len(hub_file.rows) -> Scores] :
               preds_file' = File(ChempropPredictions(hub_file.rows, sc))
       ELSE preds_file' = NoFile
    /\ visualize_top_predictions(preds_file')
    /\ UNCHANGED <<trainVars, hubVars, pipeVars>>

InitPipe == PipeStart /\ IdleTrain /\ IdleViz /\ IdlePipe

NextPipe ==
    \/ StartRun
    \/ LoadStage
    \/ ResolveStage
    \/ ActivityStage
    \/ MoleculeStage
    \/ BuildStage
    \/ SaveStage
    \/ TrainInvoke
    \/ TrainExit
    \/ PredictInvoke
    \/ PredictExit
    \/ VisualizeRun

SpecPipe == InitPipe /\ [][NextPipe]_vars

-----------------------------------------------------------------------------
(* Properties of create_training_data (checked under SpecTrain) *)

\* the relational join: (activity row, structure row) pairs on one molecule_chembl_id
MatchingPairs ==
    {p \in (1..Len(activity_data)) \X (1..Len(molecule_data)) :
        activity_data[p[1]].molecule_chembl_id = molecule_data[p[2]].molecule_chembl_id}

\* the matching pairs with no null cell
JoinPairs ==
    {p \in MatchingPairs : /\ ~IsNull(activity_data[p[1]].standard_value)
                           /\ ~IsNull(molecule_data[p[2]].canonical_smiles)}

\* the joined activity rows that have structure string s
PairsOf(s) == {p \in JoinPairs : molecule_data[p[2]].canonical_smiles = Some(s)}

RECURSIVE PotencySum(_)
PotencySum(S) ==
    IF S = {} THEN 0
    ELSE LET p == CHOOSE q \in S : TRUE
         IN  Val(activity_data[p[1]].standard_value) + PotencySum(S \ {p})

UniqueMoleculeIds ==
    \A i, j \in 1..Len(molecule_data) :
        i # j => molecule_data[i].molecule_chembl_id # molecule_data[j].molecule_chembl_id

Min(a, b) == IF a <= b THEN a ELSE b

\* C1: the table create_training_data returns has no two rows with the same
\* canonical_smiles, and every returned row has a non-null (integer) activity label.
C1_UniqueStructures ==
    built =>
        /\ \A i, j \in 1..Len(training_data) :
              i # j => training_data[i].canonical_smiles # training_data[j].canonical_smiles
        /\ \A i \in 1..Len(training_data) : training_data[i].activity \in Int

\* C1 witness: two joined rows with one structure string were merged into one row
C1_Witness ==
    /\ built
    /\ Len(training_data) = 1
    /\ n_joined >= 2

\* C2: every returned label is 0 or 1, and it is 1 exactly when the mean of the raw
\* potencies of all joined activity rows with that structure is strictly below nm_cutoff.
C2_LabelIsThresholdedMean ==
    built =>
        \A i \in 1..Len(training_data) :
            LET P == PairsOf(training_data[i].canonical_smiles)
            IN  /\ P # {}
                /\ training_data[i].activity \in {0, 1}
                /\ training_data[i].activity = 1
                      <=> PotencySum(P) < nm_cutoff * Cardinality(P)

\* C2 witness: a structure whose potencies 10 and 30 average exactly to the cutoff
\* (label 0), although one of them alone is below it
C2_Witness ==
    /\ built
    /\ \E i \in 1..Len(training_data) :
          LET P == PairsOf(training_data[i].canonical_smiles)
          IN  /\ Cardinality(P) >= 2
              /\ PotencySum(P) = nm_cutoff * Cardinality(P)
              /\ \E p \in P : Val(activity_data[p[1]].standard_value) < nm_cutoff
              /\ training_data[i].activity = 0

\* C3 as stated: the rows left after the join and the dropna are at most
\* min(number of activity rows, number of structure rows).
C3_Original ==
    built => n_joined <= Min(Len(activity_data), Len(molecule_data))

\* C3 amended: the rows left are at most the number of (activity row, structure row)
\* pairs sharing a molecule_chembl_id, and at most the number of activity rows when
\* no molecule_chembl_id occurs twice in the structure table.
C3_JoinBound ==
    built =>
        /\ n_joined <= Cardinality(MatchingPairs)
        /\ UniqueMoleculeIds => n_joined <= Len(activity_data)

\* C3 witness: several activity rows of one compound, one structure row
C3_Witness ==
    /\ built
    /\ UniqueMoleculeIds
    /\ Len(molecule_data) = 1
    /\ n_joined = 2

-----------------------------------------------------------------------------
(* Properties of download_drug_repurposing_hub (checked under SpecHub) *)

\* C4: once data/drug_repurposing_hub.csv has been written, no later step makes a
\* network read or changes the file, whatever the remote file then holds.
C4_CachedFileIsFinal ==
    [][hub_file.exists => (hub_file' = hub_file /\ net_reads' = net_reads)]_vars

\* C4 witness: a later call returned on the existing file although the remote file
\* would now yield another table
C4_Witness ==
    /\ hub_file.exists
    /\ hub_result = "cached"
    /\ hub_calls >= 2
    /\ net_reads = 1
    /\ ~ApplyRaises(ReadCsv(remote))
    /\ ProcessHub(ReadCsv(remote)) # hub_file.rows

\* the downloaded rows whose structure string canonicalizes to s
RowsOf(s) == {i \in 1..Len(downloaded) : canon_smiles(Val(downloaded[i].smiles)) = Some(s)}

SetMin(S) == CHOOSE m \in S : \A x \in S : m <= x

\* C5: in the written table the smiles column has no duplicate and no missing value;
\* the rows whose string fails canonicalization are absent, and of the rows sharing
\* one canonical structure exactly the first in input order is kept.
C5_HubDedup ==
    hub_file.exists =>
        LET hub_rows == hub_file.rows
        IN  /\ \A i, j \in 1..Len(hub_rows) : i # j => hub_rows[i].smiles # hub_rows[j].smiles
            /\ \A i \in 1..Len(hub_rows) :
                  /\ ~IsNull(hub_rows[i].smiles)
                  /\ hub_rows[i].row \in RowsOf(Val(hub_rows[i].smiles))
                  /\ hub_rows[i].row = SetMin(RowsOf(Val(hub_rows[i].smiles)))
            /\ \A r \in 1..Len(downloaded) :
                  LET c == canon_smiles(Val(downloaded[r].smiles))
                  IN  ~IsNull(c) => \E i \in 1..Len(hub_rows) : hub_rows[i].smiles = c

\* C5 witness: the download held an unparsable row and, after it, two spellings of
\* one structure; the hub_rows table holds the first spelling's row only
C5_Witness ==
    /\ hub_file.exists
    /\ Len(downloaded) = 3
    /\ Len(hub_file.rows) = 1
    /\ hub_file.rows[1].row = 2
    /\ IsNull(canon_smiles(Val(downloaded[1].smiles)))
    /\ downloaded[2].smiles # downloaded[3].smiles

-----------------------------------------------------------------------------
(* Properties of visualize_top_predictions (checked under SpecViz) *)

\* the file rows handed to the renderer
Selected == {drawn[i].row : i \in 1..Len(drawn)}

\* the number of file rows whose structure string parses
ValidRows == Cardinality({i \in 1..Len(preds_file.rows) :
                             ~IsNull(MolFromSmiles(preds_file.rows[i].smiles))})

NonIncreasing ==
    \A i, j \in 1..Len(drawn) : i < j => drawn[i].legend >= drawn[j].legend

\* the renderer is handed rows of the file, each at most once, with its own score
DrawnFromFile ==
    /\ \A i, j \in 1..Len(drawn) : i # j => drawn[i].row # drawn[j].row
    /\ \A i \in 1..Len(drawn) :
          /\ drawn[i].row \in 1..Len(preds_file.rows)
          /\ drawn[i].legend = preds_file.rows[drawn[i].row].activity

\* C8: from a predictions file of N >= 9 rows exactly 9 rows are selected, no
\* unselected row scores strictly above a selected one, and the selected rows reach
\* the renderer in non-increasing score order.
C8_TopNine ==
    (viz_result # "none" /\ preds_file.exists /\ Len(preds_file.rows) >= TopN) =>
        /\ Len(drawn) = TopN
        /\ DrawnFromFile
        /\ \A u \in (1..Len(preds_file.rows)) \ Selected : \A i \in 1..Len(drawn) :
              ~(preds_file.rows[u].activity > drawn[i].legend)
        /\ NonIncreasing

\* C8 witness: a file of more than 9 rows whose last row is left out,
\* while both scores occur among the 9 selected
C8_Witness ==
    /\ viz_result = "image"
    /\ Len(preds_file.rows) > TopN
    /\ Len(preds_file.rows) \notin Selected
    /\ drawn[1].legend > drawn[TopN].legend

\* C9 as stated: with fewer than 9 rows of valid structure the call ends in an error.
C9_Original ==
    (viz_result # "none" /\ preds_file.exists /\ ValidRows < TopN) => viz_result = "error"

\* C9 amended: a predictions file of N rows, 1 <= N < 9, all of valid structure, does
\* not make the call fail: all N rows reach the renderer in non-increasing score
\* order and the image is returned.  The call fails when the file is missing.
C9_FewRowsAreDrawn ==
    /\ (viz_result # "none" /\ preds_file.exists
            /\ Len(preds_file.rows) \in 1..(TopN - 1)
            /\ ValidRows = Len(preds_file.rows)) =>
          /\ viz_result = "image"
          /\ Len(drawn) = Len(preds_file.rows)
          /\ DrawnFromFile
          /\ NonIncreasing
    /\ (viz_result # "none" /\ ~preds_file.exists) => viz_result = "error"

\* C9 witness: three valid rows, drawn as a three-cell grid
C9_Witness ==
    /\ viz_result = "image"
    /\ Len(preds_file.rows) = 3
    /\ ValidRows = 3
    /\ Len(drawn) = 3
    /\ drawn[1].legend > drawn[3].legend

-----------------------------------------------------------------------------
(* Properties of run_repurposing_pipeline (checked under SpecPipe) *)

IsPrefix(a, b) == Len(a) <= Len(b) /\ a = SubSeq(b, 1, Len(a))

StagesUpTo(stage) == SubSeq(StageOrder, 1, StageIndex(stage))

\* C6: in every run the stages start in the order load, resolve, activity, molecule,
\* build, save, train, predict, each only after the one before it has completed;
\* predict is not invoked before train has exited, nor train before the training
\* CSV has been written.
C6_StagesInOrder ==
    /\ IsPrefix(started, StageOrder)
    /\ pc \in Range(StageOrder) => Len(started) = StageIndex(pc) - 1
    /\ pc = "train_wait" => (started = StagesUpTo("train") /\ train_exit = Null)
    /\ pc = "predict_wait" => (started = StagesUpTo("predict") /\ predict_exit = Null)
    /\ pc = "done" => started = StageOrder
    /\ "predict" \in Range(started) => train_exit = Some(0)
    /\ "train" \in Range(started) =>
          TrainingDataFile(<<"data">>, ReplaceSpaces(search)) \in written

\* C6 witness: a run that went through all eight stages
C6_Witness ==
    /\ pc = "done"
    /\ started = StageOrder
    /\ train_exit = Some(0)
    /\ predict_exit = Some(0)

\* C7: a non-zero exit of chemprop train ends the run in an error, with train
\* invoked once and predict never; a non-zero exit of chemprop predict ends the run
\* in an error, with predict invoked once.
C7_NonZeroExitIsFatal ==
    /\ (train_exit # Null /\ train_exit # Some(0)) =>
          /\ pc = "failed"
          /\ started = StagesUpTo("train")
          /\ predict_args = Null
          /\ predict_exit = Null
    /\ (predict_exit # Null /\ predict_exit # Some(0)) =>
          /\ pc = "failed"
          /\ started = StagesUpTo("predict")

\* C7 witness: chemprop train exited with status 1
C7_Witness ==
    /\ train_exit = Some(1)
    /\ train_args # Null
    /\ pc = "failed"

\* C10: when target.search returns no result the run ends in an error after the
\* reference-library load and the target resolution alone: no activity or molecule
\* fetch, no training-data file written, no chemprop invocation.
C10_NoTargetStopsRun ==
    target_hits = Some(<<>>) =>
        /\ pc = "failed"
        /\ started = StagesUpTo("resolve")
        /\ target_chembl_id = Null
        /\ activity_data = <<>> /\ molecule_data = <<>> /\ ~built
        /\ written = {}
        /\ train_args = Null /\ predict_args = Null
        /\ train_exit = Null /\ predict_exit = Null

\* C10 witness: the library was loaded, the search came back empty, the run failed
C10_Witness ==
    /\ target_hits = Some(<<>>)
    /\ hub_file.exists
    /\ pc = "failed"
    /\ started = <<"load", "resolve">>

\* the run follows a failed run of the same search string that got past the
\* reference-library load
RerunAfterFailure ==
    /\ runs >= 2
    /\ last_run.pc = "failed"
    /\ Len(last_run.started) >= 2
    /\ last_run.search = search

\* C11: a run for the same search string after a run that failed past the
\* reference-library load goes through target resolution, activity fetch, molecule
\* fetch, training-set build, training-data save and chemprop train again from the
\* start, whatever the failed run left on disk; only the download of the reference
\* library is skipped (the call returns on the existing file).
C11_RerunStartsOver ==
    RerunAfterFailure =>
        /\ IsPrefix(started, StageOrder)
        /\ pc \in Range(StageOrder) => Len(started) = StageIndex(pc) - 1
        /\ pc = "train_wait" => started = StagesUpTo("train")
        /\ pc = "done" => started = StageOrder
        /\ Len(started) >= 1 => hub_result = "cached"
        /\ Len(started) >= 2 => target_hits # Null
        /\ Len(started) >= 6 =>
              (built /\ TrainingDataFile(<<"data">>, ReplaceSpaces(search)) \in written)
        /\ Len(started) >= 7 => train_args # Null
        /\ Len(started) >= 8 => train_exit = Some(0)

\* C11 witness: the run before failed at predict, leaving the training CSV and the
\* model directory; the new run has saved the CSV and run chemprop train again
C11_Witness ==
    /\ RerunAfterFailure
    /\ last_run.started = StageOrder
    /\ hub_result = "cached"
    /\ TrainingDataFile(<<"data">>, ReplaceSpaces(search)) \in written
    /\ train_exit = Some(0)
    /\ FileOf(Val(train_args).save_dir) \in fs

-----------------------------------------------------------------------------
(* C12 *)

\* the run has started chemprop train
TrainStarted == train_args # Null

\* the run has started chemprop predict
PredictStarted == predict_args # Null

\* visualize_top_predictions has been called on the run's search string
Visualized == viz_path # Null

\* the four identities of files within one run and its visualisation
SameFiles ==
    /\ TrainStarted => written = {FileOf(Val(train_args).data_path)}
    /\ PredictStarted =>
          /\ FileOf(Val(train_args).save_dir) = FileOf(Val(predict_args).model_paths)
          /\ FileOf(Val(predict_args).test_path) = HubFilePath
    /\ (PredictStarted /\ Visualized) =>
          FileOf(Val(viz_path)) = FileOf(Val(predict_args).preds_path)

\* C12: for every search string, the file save_training_data writes is the
\* --data-path of chemprop train, the --save-dir of training is the --model-paths
\* of prediction, the --test-path is the file download_drug_repurposing_hub
\* writes, and the --preds-path is the file visualize_top_predictions reads
C12_Original == SameFiles

\* a search string whose first character is "/"
LeadingSlash == search # <<>> /\ search[1] = "/"

\* the identities hold in every run whose search string does not begin with "/"
C12_SameFilesRelativeName == ~LeadingSlash => SameFiles

\* the identities other than the training file's hold for every search string
C12_OtherFilesAgree ==
    /\ PredictStarted =>
          /\ FileOf(Val(train_args).save_dir) = FileOf(Val(predict_args).model_paths)
          /\ FileOf(Val(predict_args).test_path) = HubFilePath
    /\ (PredictStarted /\ Visualized) =>
          FileOf(Val(viz_path)) = FileOf(Val(predict_args).preds_path)

\* a run on a search string with a leading "/" has written its training data and
\* started chemprop train on another file
C12_DifferentTrainingFile ==
    /\ LeadingSlash
    /\ TrainStarted
    /\ written # {}
    /\ FileOf(Val(train_args).data_path) \notin written

\* a run and its visualisation, on a search string with a space, with all four
\* pairs of files in place
C12_Witness ==
    /\ search = <<"P", " ", "f">>
    /\ PredictStarted
    /\ Visualized
    /\ viz_result = "image"
    /\ SameFiles

=============================================================================
